---- MODULE Spec2Model ----
(***************************************************************************)
(* Model of the S3 upload manager (feature/s3/manager upload.go, kept in   *)
(* src/unnamed/part_000): Uploader.Upload / Uploader.ResumeUpload, the     *)
(* single-part path, and the multipart coordinator with its producer loop  *)
(* and its Concurrency worker goroutines.                                  *)
(*                                                                         *)
(* Byte contents are not stored.  The body is a stream of body.size bytes  *)
(* and every reader handed out by nextReader is the byte range             *)
(* [start, start+len) of it, so "the parts concatenate to the body" is a   *)
(* statement about ranges.  An MD5 digest is modelled as the range it was  *)
(* computed over (an injective abstraction of hashing).                    *)
(***************************************************************************)
EXTENDS Integers, Sequences, FiniteSets, TLC

\* ---------------------------------------------------------------- constants
MaxUploadParts == 10000
MinUploadPartSize == 1024 * 1024 * 5
DefaultUploadPartSize == MinUploadPartSize
DefaultUploadConcurrency == 5

\* ------------------------------------------------------------------- bounds
\* Bodies are up to MaxParts minimum-size parts long.
MaxParts == 2
\* Configured Concurrency is 1 or MaxConcurrency.
MaxConcurrency == 2
\* ListParts reports the part numbers 1..r for some r <= MaxListed.
MaxListed == 2
\* The ListParts paginator is followed for at most MaxPages pages.
MaxPages == MaxListed + 1

Min2(a, b) == IF a <= b THEN a ELSE b

\* ------------------------------------------------------------------- errors
Err(kind, part) == [kind |-> kind, part |-> part, cause |-> ""]
NoErr == Err("nil", 0)
EOF == Err("EOF", 0)
CtxErr == Err("context canceled", 0)
ReadErr == Err("read error", 0)
\* fmt.Errorf("...: %w", e): a new error that wraps e.
Wrap(msg, e) == [kind |-> msg, part |-> e.part, cause |-> e.kind]

\* ------------------------------------------------------------------ inputs
\* body.kind: "ra" is a readerAtSeeker (it is an io.Seeker too), "seq" a plain io.Reader.
IsSeeker(b) == b.kind = "ra"
IsReaderAtSeeker(b) == b.kind = "ra"

Sizes ==
    {0, 10, MaxParts * MinUploadPartSize}
    \cup {k * MinUploadPartSize + d : k \in 1..(MaxParts - 1), d \in {0, 1}}
\* The largest number of bytes one Read of a sequential body returns: filling
\* a part buffer takes more than one Read.
ReadMaxes == {(MinUploadPartSize \div 2) + 1}

Bodies ==
    { [kind |-> "ra", size |-> s, readMax |-> MinUploadPartSize, eagerEOF |-> FALSE] :
        s \in Sizes }
    \cup
    { [kind |-> "seq", size |-> s, readMax |-> m, eagerEOF |-> e] :
        s \in Sizes, m \in ReadMaxes, e \in BOOLEAN }

Configs ==
    [ PartSize : {0, MinUploadPartSize - 1},
      Concurrency : {1, MaxConcurrency},
      MaxUploadParts : {0, 1},
      LeavePartsOnError : BOOLEAN ]

NoUploadID == "<nil>"
CreatedID == "created-id"
ResumeID == "resume-id"

VARIABLES
    cfg,               \* uploader.cfg: the per-call copy of the Uploader
    body,              \* uploader.in.Body
    existingUploadID,  \* uploader.existingUploadID
    ctxDone,           \* uploader.ctx has been cancelled
    pc,                \* position of the goroutine running upload()
    readerPos,         \* uploader.readerPos
    totalSize,         \* uploader.totalSize
    pool,              \* uploader.cfg.partPool
    cur,               \* (reader, length, cleanup, err) held by the producer
    num,               \* multiuploader.upload: var num int32
    ch,                \* the chunk channel
    chClosed,          \* close(ch) has run
    wpc,               \* position of each readChunk goroutine
    wdata,             \* the chunk each readChunk goroutine holds
    err,               \* multiuploader.err
    uploadID,          \* multiuploader.uploadID
    parts,             \* multiuploader.parts
    eTagByPartNumber,  \* multiuploader.eTagByPartNumber
    pager,             \* the ListParts paginator: pages fetched, HasMorePages()
    repeat,            \* multiuploader.upload: repeat
    readers,           \* every pair nextReader has returned, in call order
    cleanups,          \* how many times each pair's cleanup has run
    enq,               \* every chunk sent on ch, in send order
    calls,             \* the store-client calls made so far
    ret                \* what Upload / ResumeUpload returned

\* The caller's side of Upload / ResumeUpload: the Uploader value the calls
\* are made from and what each call does with its copy of it.
VARIABLES
    theUploader,       \* the caller's Uploader
    heap,              \* the backing arrays of the ClientOptions slices
    pools,             \* every byteSlicePool allocated so far
    call               \* per call from theUploader: its uploader struct

\* One upload: the state of uploader.upload() and multiuploader.upload().
uploadVars == << cfg, body, existingUploadID, ctxDone, pc, readerPos, totalSize, pool,
                 cur, num, ch, chClosed, wpc, wdata, err, uploadID, parts,
                 eTagByPartNumber, pager, repeat, readers, cleanups, enq,
                 calls, ret >>
callerVars == << theUploader, heap, pools, call >>

vars == << uploadVars, callerVars >>

\* What no step of one upload changes: its input, and the caller's side.
inputVars == << body, existingUploadID, callerVars >>
workerVars == << wpc, wdata >>
queueVars == << ch, chClosed, enq >>
listVars == << eTagByPartNumber, pager, repeat >>
readerVars == << readerPos, pool, cur, readers, cleanups >>

Workers == 1..MaxConcurrency

\* ------------------------------------------------------------------- ETags
\* hex.EncodeToString(md5 of the bytes [start, start+len) of the body).
MD5Hex(start, len) == [quoted |-> FALSE, sum |-> << start, len >>]
\* The store reports an ETag wrapped in ASCII double quotes.
Quote(e) == [quoted |-> TRUE, sum |-> e.sum]
\* strconv.Unquote: strips the quotes, a syntax error when there are none.
Unquote(e) ==
    IF e.quoted THEN [ok |-> TRUE, val |-> [quoted |-> FALSE, sum |-> e.sum]]
    ELSE [ok |-> FALSE, val |-> e]

\* ------------------------------------------------- uploader.init / initSize
initDefaults(c) ==
    [c EXCEPT !.Concurrency = IF @ = 0 THEN DefaultUploadConcurrency ELSE @,
              !.PartSize = IF @ = 0 THEN DefaultUploadPartSize ELSE @,
              !.MaxUploadParts = IF @ = 0 THEN MaxUploadParts ELSE @]

\* Mutant: the part size is raised without the one added for the remainder.
initSize_NoRemainder(c, b) ==
    IF IsSeeker(b)
    THEN [ totalSize |-> b.size,
           cfg |-> IF b.size \div c.PartSize >= c.MaxUploadParts
                   THEN [c EXCEPT !.PartSize = b.size \div c.MaxUploadParts]
                   ELSE c ]
    ELSE [ totalSize |-> -1, cfg |-> c ]

\* seekerLen(r) is taken to succeed: the body's length is body.size.
initSize(c, b) ==
    IF IsSeeker(b)
    THEN [ totalSize |-> b.size,
           cfg |-> IF b.size \div c.PartSize >= c.MaxUploadParts
                   THEN [c EXCEPT !.PartSize = (b.size \div c.MaxUploadParts) + 1]
                   ELSE c ]
    ELSE [ totalSize |-> -1, cfg |-> c ]

\* Mutant: the pool is given one buffer more than Concurrency+1.
poolCap_OneMore(c) == c.Concurrency + 2

poolCap(c) == c.Concurrency + 1

\* newByteSlicePool(sliceSize) followed by ModifyCapacity(capacity).
newByteSlicePool(sliceSize, capacity) ==
    [sliceSize |-> sliceSize, cap |-> capacity, out |-> 0, closed |-> FALSE]
NoPool == newByteSlicePool(0, 0)

\* byteSlicePool.Get blocks while every buffer is out and ctx is live.
PoolCanGet == ctxDone \/ pool.out < pool.cap
PoolGet(p) == [p EXCEPT !.out = @ + 1]
PoolPut(p) == [p EXCEPT !.out = @ - 1]
PoolClose(p) == [p EXCEPT !.closed = TRUE]

\* ---------------------------------------------------- io.Reader of the body
\* One Read of a sequential body at offset pos into want free bytes.
Read(b, pos, want, fail) ==
    IF fail THEN [n |-> 0, err |-> ReadErr]
    ELSE IF pos >= b.size THEN [n |-> 0, err |-> EOF]
    ELSE LET n == Min2(Min2(want, b.size - pos), b.readMax)
         IN  [n |-> n, err |-> IF b.eagerEOF /\ pos + n = b.size THEN EOF ELSE NoErr]

RECURSIVE fillLoop(_, _, _, _, _, _)
fillLoop(b, pos, buflen, offset, e, failAfter) ==
    IF offset < buflen /\ e = NoErr
    THEN LET r == Read(b, pos + offset, buflen - offset, failAfter = 0)
         IN  fillLoop(b, pos, buflen, offset + r.n, r.err, failAfter - 1)
    ELSE [offset |-> offset, err |-> e]

\* Mutant: one Read, without the loop that fills the buffer.
readFillBuf_OneRead(b, pos, buflen, failAfter) ==
    LET r == Read(b, pos, buflen, failAfter = 0)
    IN  [offset |-> r.n, err |-> r.err]

\* failAfter: how many Reads succeed before the body reports an error (-1: never).
readFillBuf(b, pos, buflen, failAfter) == fillLoop(b, pos, buflen, 0, NoErr, failAfter)

FailChoices == IF IsReaderAtSeeker(body) THEN {-1} ELSE {-1, 0, 1}

\* ------------------------------------------------------ uploader.nextReader
\* Mutant: bytesLeft < PartSize instead of <=.
nextReaderAt_Strict ==
    LET atEnd == totalSize >= 0 /\ totalSize - readerPos < cfg.PartSize
        n == IF atEnd THEN totalSize - readerPos ELSE cfg.PartSize
    IN  [ start |-> readerPos, len |-> n, pooled |-> FALSE,
          err |-> IF atEnd THEN EOF ELSE NoErr ]

\* Mutant: an empty remainder is not reported as io.EOF.
nextReaderAt_NoEOFOnEmpty ==
    LET atEnd == totalSize >= 0 /\ totalSize - readerPos <= cfg.PartSize
                 /\ totalSize - readerPos > 0
        n == IF totalSize >= 0 /\ totalSize - readerPos <= cfg.PartSize
             THEN totalSize - readerPos ELSE cfg.PartSize
    IN  [ start |-> readerPos, len |-> n, pooled |-> FALSE,
          err |-> IF atEnd THEN EOF ELSE NoErr ]

nextReaderAt ==
    LET atEnd == totalSize >= 0 /\ totalSize - readerPos <= cfg.PartSize
        n == IF atEnd THEN totalSize - readerPos ELSE cfg.PartSize
    IN  [ start |-> readerPos, len |-> n, pooled |-> FALSE,
          err |-> IF atEnd THEN EOF ELSE NoErr ]

nextReaderPool(failAfter) ==
    IF ctxDone
    THEN [start |-> readerPos, len |-> 0, pooled |-> FALSE, err |-> CtxErr]
    ELSE LET r == readFillBuf(body, readerPos, pool.sliceSize, failAfter)
         IN  [start |-> readerPos, len |-> r.offset, pooled |-> TRUE, err |-> r.err]

nextReader(failAfter) ==
    IF IsReaderAtSeeker(body) THEN nextReaderAt ELSE nextReaderPool(failAfter)

CanNextReader == IsReaderAtSeeker(body) \/ PoolCanGet

\* s3.NewListPartsPaginator: HasMorePages() holds until a page says otherwise.
NewPaginator == [fetched |-> 0, hasMore |-> TRUE]

NoCur == [id |-> 0, len |-> 0, err |-> NoErr]
NoChunk == [num |-> 0, id |-> 0]

\* The producer takes the pair r that nextReader returned.
TakeReader(r, e) ==
    /\ readers' = Append(readers, [start |-> r.start, len |-> r.len, pooled |-> r.pooled])
    /\ cleanups' = Append(cleanups, 0)
    /\ readerPos' = readerPos + r.len
    /\ pool' = IF r.pooled THEN PoolGet(pool) ELSE pool
    /\ cur' = [id |-> Len(readers) + 1, len |-> r.len, err |-> e]

\* The cleanup closure of pair id runs: a pooled buffer goes back to the pool.
CleanedUp(id) == [cleanups EXCEPT ![id] = @ + 1]
PoolAfterCleanup(id) == IF readers[id].pooled THEN PoolPut(pool) ELSE pool
Cleanup(id) ==
    /\ cleanups' = CleanedUp(id)
    /\ pool' = PoolAfterCleanup(id)

\* ----------------------------------------------- multiuploader.shouldContinue
LimitErr(part) ==
    IF part > cfg.MaxUploadParts
    THEN Err("exceeded total allowed configured MaxUploadParts", 0)
    ELSE Err("exceeded total allowed S3 limit MaxUploadParts", 0)

\* Mutant: a final chunk of one byte is taken for an empty one.
shouldContinue_DropsLastByte(part, nextChunkLen, e) ==
    IF e # NoErr /\ e # EOF
    THEN [ok |-> FALSE, err |-> Wrap("read multipart upload data failed", e)]
    ELSE IF nextChunkLen <= 1
    THEN [ok |-> FALSE, err |-> NoErr]
    ELSE IF part + 1 > cfg.MaxUploadParts \/ part + 1 > MaxUploadParts
    THEN [ok |-> FALSE, err |-> LimitErr(part + 1)]
    ELSE [ok |-> TRUE, err |-> e]

\* Mutant: the part count is compared with one more than the limits.
shouldContinue_OnePastLimit(part, nextChunkLen, e) ==
    IF e # NoErr /\ e # EOF
    THEN [ok |-> FALSE, err |-> Wrap("read multipart upload data failed", e)]
    ELSE IF nextChunkLen = 0
    THEN [ok |-> FALSE, err |-> NoErr]
    ELSE IF part > cfg.MaxUploadParts \/ part > MaxUploadParts
    THEN [ok |-> FALSE, err |-> LimitErr(part + 1)]
    ELSE [ok |-> TRUE, err |-> e]

shouldContinue(part, nextChunkLen, e) ==
    IF e # NoErr /\ e # EOF
    THEN [ok |-> FALSE, err |-> Wrap("read multipart upload data failed", e)]
    ELSE IF nextChunkLen = 0
    THEN [ok |-> FALSE, err |-> NoErr]
    ELSE IF part + 1 > cfg.MaxUploadParts \/ part + 1 > MaxUploadParts
    THEN [ok |-> FALSE, err |-> LimitErr(part + 1)]
    ELSE [ok |-> TRUE, err |-> e]

\* ------------------------------------------------------ geterr / seterr
geterr == err
seterr(e) == err' = e

\* ------------------------------------------- completedParts, sort.Sort
completePart(n, eTag) == parts' = Append(parts, [PartNumber |-> n, ETag |-> eTag])

RECURSIVE insertPart(_, _)
insertPart(s, p) ==
    IF s = << >> THEN << p >>
    ELSE IF p.PartNumber < Head(s).PartNumber THEN << p >> \o s
    ELSE << Head(s) >> \o insertPart(Tail(s), p)

\* Mutant: the manifest is sent in completion order.
sortParts_Unsorted(s) == s

RECURSIVE sortParts(_)
sortParts(s) ==
    IF s = << >> THEN << >>
    ELSE insertPart(sortParts(SubSeq(s, 1, Len(s) - 1)), s[Len(s)])

\* ----------------------------------------------------------- store client
\* A call made with a cancelled context fails; any other call may fail.
StoreOutcomes == IF ctxDone THEN {FALSE} ELSE BOOLEAN

\* put, create, abort: how many calls; list: 1 once ListParts has been called;
\* completeOK, abortOK: the call was made and returned no error.
NoCalls == [put |-> 0, create |-> 0, list |-> 0, abort |-> 0, uploadPart |-> {},
            complete |-> << >>, completeOK |-> FALSE, abortID |-> NoUploadID,
            abortOK |-> FALSE]

Running == [status |-> "running", err |-> NoErr, wrapped |-> FALSE, uploadID |-> ""]
\* return nil, e
ReturnErr(e) == [status |-> "err", err |-> e, wrapped |-> FALSE, uploadID |-> ""]
\* return nil, &multiUploadError{err: e, uploadID: id}
ReturnMultiErr(e, id) == [status |-> "err", err |-> e, wrapped |-> TRUE, uploadID |-> id]
\* return &UploadOutput{..., UploadID: id}, nil
ReturnOK(id) == [status |-> "ok", err |-> NoErr, wrapped |-> FALSE, uploadID |-> id]


\* ------------------------------------------------- what ListParts reports
\* The bytes of part n of a body of the given size cut into parts of ps bytes.
PartRange(n, ps, size) ==
    << (n - 1) * ps, IF n * ps <= size THEN ps ELSE size - (n - 1) * ps >>

\* The quoted ETag the store holds for part n: the MD5 of the local part
\* ("match"), of other bytes ("differ"), or a value without quotes ("raw").
RemoteETag(n, kind, ps, size) ==
    LET rg == PartRange(n, ps, size)
    IN  CASE kind = "match" -> Quote(MD5Hex(rg[1], rg[2]))
          [] kind = "differ" -> Quote(MD5Hex(rg[1], rg[2] + 1))
          [] OTHER -> MD5Hex(rg[1], rg[2])

ETagKinds == {"match", "differ", "raw"}

\* The pages one NextPage call may return once the part numbers in m are
\* recorded: no parts, the next one or two part numbers (the last of them with
\* any ETag), or part 1 over again (the paginator starting over).
Entry(n, kind) == [PartNumber |-> n, ETag |-> RemoteETag(n, kind, cfg.PartSize, body.size)]
Pages(m) ==
    LET n == Cardinality(DOMAIN m) + 1
    IN  {<< >>}
        \cup {<< Entry(n, k) >> : k \in IF n <= MaxListed THEN ETagKinds ELSE {}}
        \cup {<< Entry(n, "match"), Entry(n + 1, k) >> :
                 k \in IF n + 1 <= MaxListed THEN ETagKinds ELSE {}}
        \cup (IF n > 1 THEN {<< Entry(1, "match") >>} ELSE {})

\* Mutant: a part number seen again has its ETag replaced and the loop goes on.
RECURSIVE recordParts_Overwrites(_, _)
recordParts_Overwrites(ps, m) ==
    IF ps = << >> THEN [m |-> m, repeat |-> FALSE, ok |-> TRUE]
    ELSE LET p == Head(ps)
             u == Unquote(p.ETag)
         IN  IF ~u.ok
             THEN [m |-> m, repeat |-> FALSE, ok |-> FALSE]
             ELSE recordParts_Overwrites(Tail(ps),
                      [x \in DOMAIN m \cup {p.PartNumber} |->
                          IF x = p.PartNumber THEN u.val ELSE m[x]])

\* The loop over parts.Parts of one page, from the map m.
RECURSIVE recordParts(_, _)
recordParts(ps, m) ==
    IF ps = << >> THEN [m |-> m, repeat |-> FALSE, ok |-> TRUE]
    ELSE LET p == Head(ps)
         IN  IF p.PartNumber \in DOMAIN m
             THEN [m |-> m, repeat |-> TRUE, ok |-> TRUE]
             ELSE LET u == Unquote(p.ETag)
                  IN  IF ~u.ok
                      THEN [m |-> m, repeat |-> FALSE, ok |-> FALSE]
                      ELSE recordParts(Tail(ps),
                               [x \in DOMAIN m \cup {p.PartNumber} |->
                                   IF x = p.PartNumber THEN u.val ELSE m[x]])

\* ---------------------------------------------------------------- Go slices
\* A slice is (array, len, cap); heap[a] is the backing array a, cap elements
\* long; the nil slice has no array.
NilSlice == [arr |-> 0, len |-> 0, cap |-> 0]
NoOption == "<unset>"
SliceElems(h, s) == [i \in 1..s.len |-> h[s.arr][i]]

\* make([]func(*s3.Options), 0, n)
makeSlice(h, n) ==
    [ heap |-> Append(h, [i \in 1..n |-> NoOption]),
      slice |-> [arr |-> Len(h) + 1, len |-> 0, cap |-> n] ]

\* append(s, x): in place while the capacity allows, else into a new array.
appendOne(h, s, x) ==
    IF s.len < s.cap
    THEN [ heap |-> [h EXCEPT ![s.arr][s.len + 1] = x],
           slice |-> [s EXCEPT !.len = @ + 1] ]
    ELSE LET n == IF s.cap = 0 THEN 1 ELSE 2 * s.cap
             a == [i \in 1..n |-> IF i <= s.len THEN h[s.arr][i]
                                  ELSE IF i = s.len + 1 THEN x ELSE NoOption]
         IN  [ heap |-> Append(h, a),
               slice |-> [arr |-> Len(h) + 1, len |-> s.len + 1, cap |-> n] ]

\* append(s, xs...)
RECURSIVE appendAll(_, _, _)
appendAll(h, s, xs) ==
    IF xs = << >> THEN [heap |-> h, slice |-> s]
    ELSE LET a == appendOne(h, s, Head(xs))
         IN  appendAll(a.heap, a.slice, Tail(xs))

\* ------------------------------------------------------------ the Uploader
\* The Uploader literal: every field zero, partPool nil (pool 0).
ZeroUploader ==
    [ PartSize |-> 0, Concurrency |-> 0, LeavePartsOnError |-> FALSE,
      MaxUploadParts |-> 0, ClientOptions |-> NilSlice, partPool |-> 0 ]

\* A func(*Uploader): what an option given to NewUploader or to Upload does.
Option(kind, v) == [kind |-> kind, v |-> v]
applyOption(h, u, o) ==
    CASE o.kind = "PartSize" -> [heap |-> h, cfg |-> [u EXCEPT !.PartSize = o.v]]
      [] o.kind = "Concurrency" -> [heap |-> h, cfg |-> [u EXCEPT !.Concurrency = o.v]]
      [] o.kind = "MaxUploadParts" -> [heap |-> h, cfg |-> [u EXCEPT !.MaxUploadParts = o.v]]
      [] o.kind = "LeavePartsOnError" -> [heap |-> h, cfg |-> [u EXCEPT !.LeavePartsOnError = TRUE]]
      [] o.kind = "AppendClientOption" ->
            LET a == appendOne(h, u.ClientOptions, "request option")
            IN  [heap |-> a.heap, cfg |-> [u EXCEPT !.ClientOptions = a.slice]]
      [] o.kind = "ClientOptionsWithSpare" ->
            LET m == makeSlice(h, 2)
                a == appendOne(m.heap, m.slice, "request option")
            IN  [heap |-> a.heap, cfg |-> [u EXCEPT !.ClientOptions = a.slice]]
      [] o.kind = "SetClientOption" ->
            IF u.ClientOptions.len >= 1
            THEN [heap |-> [h EXCEPT ![u.ClientOptions.arr][1] = "replaced option"], cfg |-> u]
            ELSE [heap |-> h, cfg |-> u]
      [] OTHER -> [heap |-> h, cfg |-> u]

\* NewUploader(client, o): the Uploader, and the heap and pools it leaves.
NewUploader(o) ==
    LET u == [ ZeroUploader EXCEPT !.PartSize = DefaultUploadPartSize,
                                   !.Concurrency = DefaultUploadConcurrency,
                                   !.MaxUploadParts = MaxUploadParts ]
        a == applyOption(<< >>, u, o)
    IN  [ u |-> [a.cfg EXCEPT !.partPool = 1],
          heap |-> a.heap,
          pools |-> << newByteSlicePool(a.cfg.PartSize, 0) >> ]

\* Mutant: the user-agent option is appended to the Uploader's own slice.
copyClientOptions_NoCopy(h, s) == appendOne(h, s, "AddSDKAgentKey")

\* uploadWithSingleUploader: "Copy ClientOptions".
copyClientOptions(h, s) ==
    LET m == makeSlice(h, s.len + 1)
        a == appendOne(m.heap, m.slice, "AddSDKAgentKey")
    IN  appendAll(a.heap, a.slice, SliceElems(h, s))

Calls == {1, 2}
NoBody == [kind |-> "seq", size |-> 0, readMax |-> 1, eagerEOF |-> FALSE]
NoCall ==
    [ pc |-> "off", cfg |-> ZeroUploader, cfgIn |-> ZeroUploader, body |-> NoBody,
      totalSize |-> 0, wrapped |-> FALSE, returnCapacity |-> 0, held |-> 0 ]

\* The caller's side while one upload is looked at on its own.
CallerIdle ==
    /\ theUploader = ZeroUploader
    /\ heap = << >>
    /\ pools = << >>
    /\ call = [c \in Calls |-> NoCall]

\* -------------------------------------------------------------------- Init
Init ==
    /\ cfg \in Configs
    /\ body \in Bodies
    /\ existingUploadID \in {NoUploadID, ResumeID}
    /\ ctxDone = FALSE
    /\ pc = "init"
    /\ readerPos = 0
    /\ totalSize = 0
    /\ pool = NoPool
    /\ cur = NoCur
    /\ num = 0
    /\ ch = << >>
    /\ chClosed = FALSE
    /\ wpc = [w \in Workers |-> "idle"]
    /\ wdata = [w \in Workers |-> NoChunk]
    /\ err = NoErr
    /\ uploadID = ""
    /\ parts = << >>
    /\ eTagByPartNumber = << >>
    /\ pager = NewPaginator
    /\ repeat = FALSE
    /\ readers = << >>
    /\ cleanups = << >>
    /\ enq = << >>
    /\ calls = NoCalls
    /\ ret = Running
    /\ CallerIdle

\* The caller cancels the context while the upload runs.
Cancel ==
    /\ pc # "done"
    /\ ~ctxDone
    /\ ctxDone' = TRUE
    /\ UNCHANGED << cfg, inputVars, pc, totalSize, readerVars, num, queueVars,
                    workerVars, err, uploadID, parts, listVars, calls, ret >>

\* ------------------------------------------------------- uploader.upload
\* Mutant: upload() goes on to the first read whatever the part size.
UploadInit_NoSizeCheck ==
    /\ pc = "init"
    /\ LET r == initSize(initDefaults(cfg), body)
       IN  /\ cfg' = r.cfg
           /\ totalSize' = r.totalSize
           /\ pool' = newByteSlicePool(r.cfg.PartSize, poolCap(r.cfg))
           /\ ret' = ret
           /\ pc' = "first"
    /\ UNCHANGED << inputVars, ctxDone, readerPos, cur, readers, cleanups, num, queueVars,
                    workerVars, err, uploadID, parts, listVars, calls >>

\* u.init() and the part-size check.  The Uploader here has no partPool of its
\* own (a literal, not NewUploader's), so init allocates the pool: the branch
\* that wraps the Uploader's pool is CallInit's.
UploadInit ==
    /\ pc = "init"
    /\ LET r == initSize(initDefaults(cfg), body)
       IN  /\ cfg' = r.cfg
           /\ totalSize' = r.totalSize
           /\ IF r.cfg.PartSize < MinUploadPartSize
              THEN /\ pool' = PoolClose(newByteSlicePool(r.cfg.PartSize, poolCap(r.cfg)))
                   /\ ret' = ReturnErr(Err("part size must be at least MinUploadPartSize bytes", 0))
                   /\ pc' = "done"
              ELSE /\ pool' = newByteSlicePool(r.cfg.PartSize, poolCap(r.cfg))
                   /\ ret' = ret
                   /\ pc' = "first"
    /\ UNCHANGED << inputVars, ctxDone, readerPos, cur, readers, cleanups, num, queueVars,
                    workerVars, err, uploadID, parts, listVars, calls >>

\* reader, _, cleanup, err := u.nextReader()
FirstRead ==
    /\ pc = "first"
    /\ CanNextReader
    /\ \E f \in FailChoices :
         LET r == nextReader(f) IN TakeReader(r, r.err)
    /\ pc' = "decide"
    /\ UNCHANGED << cfg, inputVars, ctxDone, totalSize, num, queueVars, workerVars, err,
                    uploadID, parts, listVars, calls, ret >>

\* Mutant: a failed PutObject is returned as a multiUploadError.
SinglePart_WrapsError ==
    /\ pc = "decide"
    /\ cur.err = EOF
    /\ \E ok \in StoreOutcomes :
         /\ calls' = [calls EXCEPT !.put = @ + 1]
         /\ ret' = IF ok THEN ReturnOK("") ELSE ReturnMultiErr(Err("PutObject failed", 0), "")
    /\ cleanups' = CleanedUp(cur.id)
    /\ pool' = PoolClose(PoolAfterCleanup(cur.id))
    /\ pc' = "done"
    /\ UNCHANGED << cfg, inputVars, ctxDone, readerPos, totalSize, cur, readers, num,
                    queueVars, workerVars, err, uploadID, parts, listVars >>

\* err == io.EOF: u.singlePart(reader, cleanup), with its deferred cleanup.
SinglePart ==
    /\ pc = "decide"
    /\ cur.err = EOF
    /\ \E ok \in StoreOutcomes :
         /\ calls' = [calls EXCEPT !.put = @ + 1]
         /\ ret' = IF ok THEN ReturnOK("") ELSE ReturnErr(Err("PutObject failed", 0))
    /\ cleanups' = CleanedUp(cur.id)
    /\ pool' = PoolClose(PoolAfterCleanup(cur.id))
    /\ pc' = "done"
    /\ UNCHANGED << cfg, inputVars, ctxDone, readerPos, totalSize, cur, readers, num,
                    queueVars, workerVars, err, uploadID, parts, listVars >>

\* err != nil on the first read: cleanup() and return.
FirstReadFailed ==
    /\ pc = "decide"
    /\ cur.err \notin {EOF, NoErr}
    /\ cleanups' = CleanedUp(cur.id)
    /\ pool' = PoolClose(PoolAfterCleanup(cur.id))
    /\ ret' = ReturnErr(Wrap("read upload data failed", cur.err))
    /\ pc' = "done"
    /\ UNCHANGED << cfg, inputVars, ctxDone, readerPos, totalSize, cur, readers, num,
                    queueVars, workerVars, err, uploadID, parts, listVars, calls >>

\* ---------------------------------------------------- multiuploader.upload
\* Mutant: a resumed upload opens a session of its own.
AdoptSession_CreatesSession ==
    /\ pc = "decide"
    /\ cur.err = NoErr
    /\ existingUploadID # NoUploadID
    /\ uploadID' = CreatedID
    /\ calls' = [calls EXCEPT !.create = @ + 1]
    /\ pc' = "list"
    /\ UNCHANGED << cfg, inputVars, ctxDone, totalSize, readerVars, num, queueVars,
                    workerVars, err, parts, listVars, ret >>

\* Mutant: the workers are started before the parts are listed.
AdoptSession_StartsWorkers ==
    /\ pc = "decide"
    /\ cur.err = NoErr
    /\ existingUploadID # NoUploadID
    /\ uploadID' = existingUploadID
    /\ wpc' = [w \in Workers |-> IF w <= cfg.Concurrency THEN "recv" ELSE "idle"]
    /\ pc' = "list"
    /\ UNCHANGED << cfg, inputVars, ctxDone, totalSize, readerVars, num, queueVars,
                    wdata, err, parts, listVars, calls, ret >>

\* u.uploadID = *u.uploader.existingUploadID
AdoptSession ==
    /\ pc = "decide"
    /\ cur.err = NoErr
    /\ existingUploadID # NoUploadID
    /\ uploadID' = existingUploadID
    /\ pc' = "list"
    /\ UNCHANGED << cfg, inputVars, ctxDone, totalSize, readerVars, num, queueVars,
                    workerVars, err, parts, listVars, calls, ret >>

\* u.cfg.S3.CreateMultipartUpload(...)
CreateSession ==
    /\ pc = "decide"
    /\ cur.err = NoErr
    /\ existingUploadID = NoUploadID
    /\ calls' = [calls EXCEPT !.create = @ + 1]
    /\ \E ok \in StoreOutcomes :
         IF ok
         THEN /\ uploadID' = CreatedID
              /\ pc' = "start"
              /\ UNCHANGED << pool, cleanups, ret >>
         ELSE /\ cleanups' = CleanedUp(cur.id)
              /\ pool' = PoolClose(PoolAfterCleanup(cur.id))
              /\ ret' = ReturnErr(Err("CreateMultipartUpload failed", 0))
              /\ pc' = "done"
              /\ UNCHANGED uploadID
    /\ UNCHANGED << cfg, inputVars, ctxDone, readerPos, totalSize, cur, readers, num,
                    queueVars, workerVars, err, parts, listVars >>

\* One turn of: for paginator.HasMorePages() && !repeat { ... }
ListPage ==
    /\ pc = "list"
    /\ pager.hasMore /\ ~repeat
    /\ pager.fetched < MaxPages
    /\ calls' = [calls EXCEPT !.list = 1]
    /\ \E ok \in StoreOutcomes :
         IF ~ok
         THEN /\ ret' = ReturnErr(Err("ListParts failed", 0))
              /\ pool' = PoolClose(pool)
              /\ pc' = "done"
              /\ UNCHANGED listVars
         ELSE \E page \in Pages(eTagByPartNumber), more \in BOOLEAN :
              LET r == recordParts(page, eTagByPartNumber)
              IN  /\ eTagByPartNumber' = r.m
                  /\ repeat' = r.repeat
                  /\ pager' = [fetched |-> pager.fetched + 1, hasMore |-> more]
                  /\ IF r.ok
                     THEN /\ pc' = "list"
                          /\ UNCHANGED << pool, ret >>
                     ELSE /\ ret' = ReturnErr(Err("invalid syntax", 0))
                          /\ pool' = PoolClose(pool)
                          /\ pc' = "done"
    /\ UNCHANGED << cfg, inputVars, ctxDone, readerPos, totalSize, cur, readers, cleanups,
                    num, queueVars, workerVars, err, uploadID, parts >>

\* Mutant: every listed part is taken as completed when the listing ends.
ListDone_AdoptsListedParts ==
    /\ pc = "list"
    /\ ~(pager.hasMore /\ ~repeat)
    /\ pager' = NewPaginator
    /\ repeat' = FALSE
    /\ parts' = [i \in 1..Cardinality(DOMAIN eTagByPartNumber) |->
                    [PartNumber |-> i, ETag |-> eTagByPartNumber[i]]]
    /\ pc' = "start"
    /\ UNCHANGED << cfg, inputVars, ctxDone, totalSize, readerVars, num, queueVars,
                    workerVars, err, uploadID, eTagByPartNumber, calls, ret >>

\* The loop ends; paginator and repeat go out of scope.
ListDone ==
    /\ pc = "list"
    /\ ~(pager.hasMore /\ ~repeat)
    /\ pager' = NewPaginator
    /\ repeat' = FALSE
    /\ pc' = "start"
    /\ UNCHANGED << cfg, inputVars, ctxDone, totalSize, readerVars, num, queueVars,
                    workerVars, err, uploadID, parts, eTagByPartNumber, calls, ret >>

\* for i := 0; i < u.cfg.Concurrency; i++ { go u.readChunk(ch) }
StartWorkers ==
    /\ pc = "start"
    /\ wpc' = [w \in Workers |-> IF w <= cfg.Concurrency THEN "recv" ELSE "idle"]
    /\ pc' = "send1"
    /\ UNCHANGED << cfg, inputVars, ctxDone, totalSize, readerVars, num, queueVars, wdata,
                    err, uploadID, parts, listVars, calls, ret >>

\* ch <- c
Send(c) ==
    /\ Len(ch) < cfg.Concurrency
    /\ ch' = Append(ch, c)
    /\ enq' = Append(enq, c)
    /\ UNCHANGED chClosed

\* var num int32 = 1; ch <- chunk{buf: firstBuf, num: num, cleanup: cleanup}
SendFirst ==
    /\ pc = "send1"
    /\ num' = 1
    /\ Send([num |-> 1, id |-> cur.id])
    /\ pc' = "loop"
    /\ UNCHANGED << cfg, inputVars, ctxDone, totalSize, readerVars, workerVars, err,
                    uploadID, parts, listVars, calls, ret >>

\* Mutant: the loop looks at the read error only, not at u.geterr().
LoopCheck_IgnoresGeterr ==
    /\ pc = "loop"
    /\ pc' = IF cur.err = NoErr THEN "read" ELSE "close"
    /\ UNCHANGED << cfg, inputVars, ctxDone, totalSize, readerVars, num, queueVars,
                    workerVars, err, uploadID, parts, listVars, calls, ret >>

\* for u.geterr() == nil && err == nil
LoopCheck ==
    /\ pc = "loop"
    /\ pc' = IF geterr = NoErr /\ cur.err = NoErr THEN "read" ELSE "close"
    /\ UNCHANGED << cfg, inputVars, ctxDone, totalSize, readerVars, num, queueVars,
                    workerVars, err, uploadID, parts, listVars, calls, ret >>

\* u.nextReader() and u.shouldContinue(num, nextChunkLen, err)
NextChunk ==
    /\ pc = "read"
    /\ CanNextReader
    /\ \E f \in FailChoices :
         LET r == nextReader(f)
             c == shouldContinue(num, r.len, r.err)
         IN  /\ TakeReader(r, c.err)
             /\ pc' = IF c.ok THEN "enqueue" ELSE "abandon"
    /\ UNCHANGED << cfg, inputVars, ctxDone, totalSize, num, queueVars, workerVars, err,
                    uploadID, parts, listVars, calls, ret >>

\* Mutant: u.seterr(err) without the err != nil test.
Abandon_AlwaysSeterr ==
    /\ pc = "abandon"
    /\ Cleanup(cur.id)
    /\ seterr(cur.err)
    /\ pc' = "close"
    /\ UNCHANGED << cfg, inputVars, ctxDone, readerPos, totalSize, cur, readers, num,
                    queueVars, workerVars, uploadID, parts, listVars, calls, ret >>

\* Mutant: the producer drops the reader and its error without recording it.
Abandon_DropsError ==
    /\ pc = "abandon"
    /\ Cleanup(cur.id)
    /\ UNCHANGED err
    /\ pc' = "close"
    /\ UNCHANGED << cfg, inputVars, ctxDone, readerPos, totalSize, cur, readers, num,
                    queueVars, workerVars, uploadID, parts, listVars, calls, ret >>

\* !ok: cleanup(); if err != nil { u.seterr(err) }; break
Abandon ==
    /\ pc = "abandon"
    /\ Cleanup(cur.id)
    /\ IF cur.err # NoErr THEN seterr(cur.err) ELSE UNCHANGED err
    /\ pc' = "close"
    /\ UNCHANGED << cfg, inputVars, ctxDone, readerPos, totalSize, cur, readers, num,
                    queueVars, workerVars, uploadID, parts, listVars, calls, ret >>

\* Mutant: the chunk is sent without num++.
Enqueue_NoIncrement ==
    /\ pc = "enqueue"
    /\ num' = num
    /\ Send([num |-> num, id |-> cur.id])
    /\ pc' = "loop"
    /\ UNCHANGED << cfg, inputVars, ctxDone, totalSize, readerVars, workerVars, err,
                    uploadID, parts, listVars, calls, ret >>

\* num++; ch <- chunk{buf: reader, num: num, cleanup: cleanup}
Enqueue ==
    /\ pc = "enqueue"
    /\ num' = num + 1
    /\ Send([num |-> num + 1, id |-> cur.id])
    /\ pc' = "loop"
    /\ UNCHANGED << cfg, inputVars, ctxDone, totalSize, readerVars, workerVars, err,
                    uploadID, parts, listVars, calls, ret >>

\* Mutant: the producer goes on to wg.Wait() without close(ch).
CloseChannel_NoClose ==
    /\ pc = "close"
    /\ chClosed' = chClosed
    /\ pc' = "wait"
    /\ UNCHANGED << cfg, inputVars, ctxDone, totalSize, readerVars, num, ch, enq,
                    workerVars, err, uploadID, parts, listVars, calls, ret >>

\* close(ch)
CloseChannel ==
    /\ pc = "close"
    /\ chClosed' = TRUE
    /\ pc' = "wait"
    /\ UNCHANGED << cfg, inputVars, ctxDone, totalSize, readerVars, num, ch, enq,
                    workerVars, err, uploadID, parts, listVars, calls, ret >>

\* Mutant: the abort is sent whatever LeavePartsOnError says.
fail_AlwaysAborts(c, aborted) ==
    [c EXCEPT !.abort = @ + 1, !.abortID = uploadID, !.abortOK = aborted]

\* multiuploader.fail: the calls record after it.  The error of
\* AbortMultipartUpload (aborted = FALSE) is dropped: `_ = err`.
fail(c, aborted) ==
    IF cfg.LeavePartsOnError THEN c
    ELSE [c EXCEPT !.abort = @ + 1, !.abortID = uploadID, !.abortOK = aborted]

\* Mutant: complete() is called without waiting for the workers.
Finish_NoWait ==
    /\ pc = "wait"
    /\ \E aborted \in StoreOutcomes :
         IF geterr # NoErr
         THEN /\ calls' = fail(calls, aborted)
              /\ ret' = ReturnMultiErr(err, uploadID)
              /\ UNCHANGED << err, parts >>
         ELSE /\ parts' = sortParts(parts)
              /\ \E ok \in StoreOutcomes :
                   LET c == [calls EXCEPT !.complete = Append(@, [id |-> uploadID, parts |-> sortParts(parts)]),
                                          !.completeOK = ok]
                   IN  IF ok
                       THEN /\ calls' = c
                            /\ ret' = ReturnOK(uploadID)
                            /\ UNCHANGED err
                       ELSE /\ seterr(Err("CompleteMultipartUpload failed", 0))
                            /\ calls' = fail(c, aborted)
                            /\ ret' = ReturnMultiErr(Err("CompleteMultipartUpload failed", 0), uploadID)
    /\ pool' = PoolClose(pool)
    /\ pc' = "done"
    /\ UNCHANGED << cfg, inputVars, ctxDone, readerPos, totalSize, cur, readers, cleanups,
                    num, queueVars, workerVars, uploadID, listVars >>

\* Mutant: the error of a failed AbortMultipartUpload is what is returned.
Finish_ReturnsAbortError ==
    /\ pc = "wait"
    /\ \A w \in Workers : wpc[w] \in {"idle", "exit"}
    /\ \E aborted \in StoreOutcomes :
         IF geterr # NoErr
         THEN /\ calls' = fail(calls, aborted)
              /\ ret' = ReturnMultiErr(IF ~cfg.LeavePartsOnError /\ ~aborted
                                      THEN Err("AbortMultipartUpload failed", 0) ELSE err, uploadID)
              /\ UNCHANGED << err, parts >>
         ELSE /\ parts' = sortParts(parts)
              /\ \E ok \in StoreOutcomes :
                   LET c == [calls EXCEPT !.complete = Append(@, [id |-> uploadID, parts |-> sortParts(parts)]),
                                          !.completeOK = ok]
                   IN  IF ok
                       THEN /\ calls' = c
                            /\ ret' = ReturnOK(uploadID)
                            /\ UNCHANGED err
                       ELSE /\ seterr(Err("CompleteMultipartUpload failed", 0))
                            /\ calls' = fail(c, aborted)
                            /\ ret' = ReturnMultiErr(IF ~cfg.LeavePartsOnError /\ ~aborted
                                               THEN Err("AbortMultipartUpload failed", 0)
                                               ELSE Err("CompleteMultipartUpload failed", 0), uploadID)
    /\ pool' = PoolClose(pool)
    /\ pc' = "done"
    /\ UNCHANGED << cfg, inputVars, ctxDone, readerPos, totalSize, cur, readers, cleanups,
                    num, queueVars, workerVars, uploadID, listVars >>

\* u.wg.Wait(); complete := u.complete(); the return; the deferred partPool.Close().
Finish ==
    /\ pc = "wait"
    /\ \A w \in Workers : wpc[w] \in {"idle", "exit"}
    /\ \E aborted \in StoreOutcomes :
         IF geterr # NoErr
         THEN /\ calls' = fail(calls, aborted)
              /\ ret' = ReturnMultiErr(err, uploadID)
              /\ UNCHANGED << err, parts >>
         ELSE /\ parts' = sortParts(parts)
              /\ \E ok \in StoreOutcomes :
                   LET c == [calls EXCEPT !.complete = Append(@, [id |-> uploadID, parts |-> sortParts(parts)]),
                                          !.completeOK = ok]
                   IN  IF ok
                       THEN /\ calls' = c
                            /\ ret' = ReturnOK(uploadID)
                            /\ UNCHANGED err
                       ELSE /\ seterr(Err("CompleteMultipartUpload failed", 0))
                            /\ calls' = fail(c, aborted)
                            /\ ret' = ReturnMultiErr(Err("CompleteMultipartUpload failed", 0), uploadID)
    /\ pool' = PoolClose(pool)
    /\ pc' = "done"
    /\ UNCHANGED << cfg, inputVars, ctxDone, readerPos, totalSize, cur, readers, cleanups,
                    num, queueVars, workerVars, uploadID, listVars >>

\* ------------------------------------------------- multiuploader.readChunk
\* Mutant: a worker leaves its loop once the context is cancelled.
Receive_QuitsOnCancel(w) ==
    /\ wpc[w] = "recv"
    /\ IF ch # << >> /\ ~ctxDone
       THEN /\ wdata' = [wdata EXCEPT ![w] = Head(ch)]
            /\ ch' = Tail(ch)
            /\ wpc' = [wpc EXCEPT ![w] = "got"]
       ELSE /\ chClosed \/ ctxDone
            /\ wpc' = [wpc EXCEPT ![w] = "exit"]
            /\ UNCHANGED << wdata, ch >>
    /\ UNCHANGED << cfg, inputVars, ctxDone, pc, totalSize, readerVars, num, chClosed, enq,
                    err, uploadID, parts, listVars, calls, ret >>

\* data, ok := <-ch
Receive(w) ==
    /\ wpc[w] = "recv"
    /\ IF ch # << >>
       THEN /\ wdata' = [wdata EXCEPT ![w] = Head(ch)]
            /\ ch' = Tail(ch)
            /\ wpc' = [wpc EXCEPT ![w] = "got"]
       ELSE /\ chClosed
            /\ wpc' = [wpc EXCEPT ![w] = "exit"]
            /\ UNCHANGED << wdata, ch >>
    /\ UNCHANGED << cfg, inputVars, ctxDone, pc, totalSize, readerVars, num, chClosed, enq,
                    err, uploadID, parts, listVars, calls, ret >>

\* Mutant: the listed ETag is accepted without comparing the checksum.
check_IgnoresMismatch(c, eTag) ==
    /\ completePart(c.num, eTag)
    /\ UNCHANGED err

\* multiuploader.check
check(c, eTag) ==
    LET sum == MD5Hex(readers[c.id].start, readers[c.id].len)
    IN  IF sum # eTag
        THEN /\ seterr(Err("checksum did not match for chunk", c.num))
             /\ UNCHANGED parts
        ELSE /\ completePart(c.num, eTag)
             /\ UNCHANGED err

\* Mutant: a part is sent whether or not ListParts reported it.
Decide_SendsListed(w) ==
    /\ wpc[w] = "got"
    /\ wpc' = [wpc EXCEPT ![w] = IF geterr = NoErr THEN "send" ELSE "cleanup"]
    /\ UNCHANGED << err, parts >>
    /\ UNCHANGED << cfg, inputVars, ctxDone, pc, totalSize, readerVars, num, queueVars,
                    wdata, uploadID, listVars, calls, ret >>

\* Mutant: an unlisted part is sent without looking at the recorded error.
Decide_NoErrCheck(w) ==
    /\ wpc[w] = "got"
    /\ IF wdata[w].num \in DOMAIN eTagByPartNumber
       THEN /\ check(wdata[w], eTagByPartNumber[wdata[w].num])
            /\ wpc' = [wpc EXCEPT ![w] = "cleanup"]
       ELSE /\ wpc' = [wpc EXCEPT ![w] = "send"]
            /\ UNCHANGED << err, parts >>
    /\ UNCHANGED << cfg, inputVars, ctxDone, pc, totalSize, readerVars, num, queueVars,
                    wdata, uploadID, listVars, calls, ret >>

\* The if / else if of readChunk, up to the UploadPart request.
Decide(w) ==
    /\ wpc[w] = "got"
    /\ IF wdata[w].num \in DOMAIN eTagByPartNumber
       THEN /\ check(wdata[w], eTagByPartNumber[wdata[w].num])
            /\ wpc' = [wpc EXCEPT ![w] = "cleanup"]
       ELSE /\ wpc' = [wpc EXCEPT ![w] = IF geterr = NoErr THEN "send" ELSE "cleanup"]
            /\ UNCHANGED << err, parts >>
    /\ UNCHANGED << cfg, inputVars, ctxDone, pc, totalSize, readerVars, num, queueVars,
                    wdata, uploadID, listVars, calls, ret >>

\* multiuploader.send: the UploadPart request and its response.
send(w) ==
    /\ wpc[w] = "send"
    /\ calls' = [calls EXCEPT !.uploadPart = @ \cup {[num |-> wdata[w].num, id |-> uploadID]}]
    /\ \E ok \in StoreOutcomes :
         IF ok
         THEN /\ completePart(wdata[w].num,
                     Quote(MD5Hex(readers[wdata[w].id].start, readers[wdata[w].id].len)))
              /\ UNCHANGED err
         ELSE /\ seterr(Err("UploadPart failed", wdata[w].num))
              /\ UNCHANGED parts
    /\ wpc' = [wpc EXCEPT ![w] = "cleanup"]
    /\ UNCHANGED << cfg, inputVars, ctxDone, pc, totalSize, readerVars, num, queueVars,
                    wdata, uploadID, listVars, ret >>

\* Mutant: a chunk skipped because of an earlier error is not cleaned up.
WorkerCleanup_SkipOnError(w) ==
    /\ wpc[w] = "cleanup"
    /\ IF geterr = NoErr THEN Cleanup(wdata[w].id) ELSE UNCHANGED << cleanups, pool >>
    /\ wpc' = [wpc EXCEPT ![w] = "recv"]
    /\ wdata' = [wdata EXCEPT ![w] = NoChunk]
    /\ UNCHANGED << cfg, inputVars, ctxDone, pc, readerPos, totalSize, cur, readers, num,
                    queueVars, err, uploadID, parts, listVars, calls, ret >>

\* data.cleanup()
WorkerCleanup(w) ==
    /\ wpc[w] = "cleanup"
    /\ Cleanup(wdata[w].id)
    /\ wpc' = [wpc EXCEPT ![w] = "recv"]
    /\ wdata' = [wdata EXCEPT ![w] = NoChunk]
    /\ UNCHANGED << cfg, inputVars, ctxDone, pc, readerPos, totalSize, cur, readers, num,
                    queueVars, err, uploadID, parts, listVars, calls, ret >>

Next ==
    \/ Cancel
    \/ UploadInit
    \/ FirstRead
    \/ SinglePart
    \/ FirstReadFailed
    \/ AdoptSession
    \/ CreateSession
    \/ ListPage
    \/ ListDone
    \/ StartWorkers
    \/ SendFirst
    \/ LoopCheck
    \/ NextChunk
    \/ Abandon
    \/ Enqueue
    \/ CloseChannel
    \/ Finish
    \/ \E w \in Workers : Receive(w)
    \/ \E w \in Workers : Decide(w)
    \/ \E w \in Workers : send(w)
    \/ \E w \in Workers : WorkerCleanup(w)

Spec == Init /\ [][Next]_vars

\* Every step but the caller's Cancel is a step of a goroutine of the upload.
\* The Go scheduler runs a goroutine that can run and a store-client call
\* returns: a step that stays possible is taken.
ProgramNext ==
    \/ UploadInit
    \/ FirstRead
    \/ SinglePart
    \/ FirstReadFailed
    \/ AdoptSession
    \/ CreateSession
    \/ ListPage
    \/ ListDone
    \/ StartWorkers
    \/ SendFirst
    \/ LoopCheck
    \/ NextChunk
    \/ Abandon
    \/ Enqueue
    \/ CloseChannel
    \/ Finish
    \/ \E w \in Workers : Receive(w)
    \/ \E w \in Workers : Decide(w)
    \/ \E w \in Workers : send(w)
    \/ \E w \in Workers : WorkerCleanup(w)

LiveSpec == Spec /\ WF_vars(ProgramNext)

\* =================================================== calls from one Uploader
\* uploader.upload() seen from the caller: the copy of the Uploader a call
\* works on, the pool init gives it, the buffers it takes from that pool and
\* gives back, and the deferred partPool.Close().

\* One upload is not running: the upload variables rest.
UploadIdle ==
    /\ cfg = [PartSize |-> 0, Concurrency |-> 0, MaxUploadParts |-> 0,
              LeavePartsOnError |-> FALSE]
    /\ body = NoBody
    /\ existingUploadID = NoUploadID
    /\ ctxDone = FALSE
    /\ pc = "off"
    /\ readerPos = 0
    /\ totalSize = 0
    /\ pool = NoPool
    /\ cur = NoCur
    /\ num = 0
    /\ ch = << >>
    /\ chClosed = FALSE
    /\ wpc = [w \in Workers |-> "idle"]
    /\ wdata = [w \in Workers |-> NoChunk]
    /\ err = NoErr
    /\ uploadID = ""
    /\ parts = << >>
    /\ eTagByPartNumber = << >>
    /\ pager = NewPaginator
    /\ repeat = FALSE
    /\ readers = << >>
    /\ cleanups = << >>
    /\ enq = << >>
    /\ calls = NoCalls
    /\ ret = Running

\* The options a call is given, and the bodies it uploads.
CallOptions ==
    { Option("none", 0),
      Option("PartSize", MinUploadPartSize + 1),
      Option("PartSize", 1),
      Option("MaxUploadParts", 1),
      Option("Concurrency", 1),
      Option("LeavePartsOnError", 0),
      Option("AppendClientOption", 0),
      Option("SetClientOption", 0) }
CallBodies ==
    { [kind |-> "seq", size |-> 0, readMax |-> 1, eagerEOF |-> FALSE],
      [kind |-> "ra", size |-> 2 * MinUploadPartSize, readMax |-> 1, eagerEOF |-> FALSE] }

\* Uploader.Upload / ResumeUpload and uploadWithSingleUploader: the receiver
\* is copied into uploader.cfg, its ClientOptions into a new slice, and the
\* options of the call are applied to the copy.
CallUpload(c) ==
    /\ call[c].pc = "off"
    /\ \E o \in CallOptions, b \in CallBodies :
         LET k == copyClientOptions(heap, theUploader.ClientOptions)
             a == applyOption(k.heap, [theUploader EXCEPT !.ClientOptions = k.slice], o)
         IN  /\ heap' = a.heap
             /\ call' = [call EXCEPT ![c] =
                           [NoCall EXCEPT !.pc = "init", !.cfg = a.cfg,
                                          !.cfgIn = a.cfg, !.body = b]]
    /\ UNCHANGED << theUploader, pools, uploadVars >>

\* The deferred u.cfg.partPool.Close(): a pool of the call's own is closed, a
\* returnCapacityPoolCloser gives back the capacity it added.
closePartPool(ps, k) ==
    IF k.wrapped
    THEN [ps EXCEPT ![k.cfg.partPool].cap = @ + k.returnCapacity]
    ELSE [ps EXCEPT ![k.cfg.partPool] = PoolClose(@)]

\* Mutant: init allocates a pool whatever pool the Uploader has.
CallInit_AlwaysNewPool(c) ==
    /\ call[c].pc = "init"
    /\ LET r == initSize(initDefaults(call[c].cfg), call[c].body)
           id == Len(pools) + 1
           ps == Append(pools, newByteSlicePool(r.cfg.PartSize, poolCap(r.cfg)))
           small == r.cfg.PartSize < MinUploadPartSize
           k == [call[c] EXCEPT !.cfg = [r.cfg EXCEPT !.partPool = id],
                                !.totalSize = r.totalSize,
                                !.pc = IF small THEN "done" ELSE "run"]
       IN  /\ call' = [call EXCEPT ![c] = k]
           /\ pools' = IF small THEN closePartPool(ps, k) ELSE ps
    /\ UNCHANGED << theUploader, heap, uploadVars >>

\* uploader.init and the part-size check of uploader.upload.
CallInit(c) ==
    /\ call[c].pc = "init"
    /\ LET r == initSize(initDefaults(call[c].cfg), call[c].body)
           p == r.cfg.partPool
           reuse == p # 0 /\ pools[p].sliceSize = r.cfg.PartSize
           id == IF reuse THEN p ELSE Len(pools) + 1
           ps == IF reuse
                 THEN [pools EXCEPT ![p].cap = @ + poolCap(r.cfg)]
                 ELSE Append(pools, newByteSlicePool(r.cfg.PartSize, poolCap(r.cfg)))
           small == r.cfg.PartSize < MinUploadPartSize
           k == [call[c] EXCEPT !.cfg = [r.cfg EXCEPT !.partPool = id],
                                !.totalSize = r.totalSize,
                                !.wrapped = reuse,
                                !.returnCapacity = IF reuse THEN 0 - poolCap(r.cfg) ELSE 0,
                                !.pc = IF small THEN "done" ELSE "run"]
       IN  /\ call' = [call EXCEPT ![c] = k]
           /\ pools' = IF small THEN closePartPool(ps, k) ELSE ps
    /\ UNCHANGED << theUploader, heap, uploadVars >>

\* The buffers one call can hold: one with the producer, Concurrency on the
\* channel, one with each of the Concurrency workers.
callMaxHeld(c) == 2 * c.Concurrency + 1

\* nextReader, default case: u.cfg.partPool.Get(u.ctx) returns a buffer.
CallGet(c) ==
    /\ call[c].pc = "run"
    /\ ~IsReaderAtSeeker(call[c].body)
    /\ call[c].held < callMaxHeld(call[c].cfg)
    /\ pools[call[c].cfg.partPool].out < pools[call[c].cfg.partPool].cap
    /\ pools' = [pools EXCEPT ![call[c].cfg.partPool] = PoolGet(@)]
    /\ call' = [call EXCEPT ![c].held = @ + 1]
    /\ UNCHANGED << theUploader, heap, uploadVars >>

\* cleanup(): u.cfg.partPool.Put(part)
CallPut(c) ==
    /\ call[c].pc = "run"
    /\ call[c].held > 0
    /\ pools' = [pools EXCEPT ![call[c].cfg.partPool] = PoolPut(@)]
    /\ call' = [call EXCEPT ![c].held = @ - 1]
    /\ UNCHANGED << theUploader, heap, uploadVars >>

\* upload() returns, every cleanup having run: the deferred Close.
CallReturn(c) ==
    /\ call[c].pc = "run"
    /\ call[c].held = 0
    /\ pools' = closePartPool(pools, call[c])
    /\ call' = [call EXCEPT ![c].pc = "done"]
    /\ UNCHANGED << theUploader, heap, uploadVars >>

\* The Uploaders the calls are made from: the literal, and NewUploader's.
NewUploaderOptions ==
    { Option("none", 0), Option("Concurrency", 1), Option("AppendClientOption", 0),
      Option("ClientOptionsWithSpare", 0) }
Uploaders ==
    { NewUploader(o) : o \in NewUploaderOptions }
    \cup { [u |-> ZeroUploader, heap |-> << >>, pools |-> << >>] }

CallSpecInit ==
    /\ UploadIdle
    /\ \E n \in Uploaders :
         /\ theUploader = n.u
         /\ heap = n.heap
         /\ pools = n.pools
    /\ call = [c \in Calls |-> NoCall]

CallNext ==
    \E c \in Calls :
        \/ CallUpload(c)
        \/ CallInit(c)
        \/ CallGet(c)
        \/ CallPut(c)
        \/ CallReturn(c)

CallSpec == CallSpecInit /\ [][CallNext]_vars

\* ------------------------------------------------- initSize as a function
\* PartSize, MaxUploadParts and the body's length are drawn from 1..SizeMaxPart,
\* 1..SizeMaxCount and 0..SizeMaxTotal, and from the lengths around
\* SizeManyParts parts of the minimum size.
SizeMaxPart == 6
SizeMaxCount == 6
SizeMaxTotal == 40
SizeManyParts == 100

SizeInputs ==
    { [P |-> p, M |-> m, T |-> t] :
        p \in 1..SizeMaxPart, m \in 1..SizeMaxCount, t \in 0..SizeMaxTotal }
    \cup
    { [P |-> p, M |-> m, T |-> t] :
        p \in {0, MinUploadPartSize, 2 * MinUploadPartSize},
        m \in {0, SizeManyParts},
        t \in { SizeManyParts * MinUploadPartSize + d : d \in {-1, 0, 1} }
              \cup { 2 * SizeManyParts * MinUploadPartSize + d : d \in {-1, 0, 1} } }

SizeInit ==
    /\ UploadIdle
    /\ theUploader = ZeroUploader
    /\ heap = << >>
    /\ pools = << >>
    /\ \E i \in SizeInputs, kind \in {"ra", "seq"} :
         LET c == [ZeroUploader EXCEPT !.PartSize = i.P, !.MaxUploadParts = i.M]
         IN  call = [n \in Calls |->
                       IF n = 1
                       THEN [NoCall EXCEPT !.pc = "init", !.cfg = c, !.cfgIn = c,
                                           !.body = [NoBody EXCEPT !.kind = kind, !.size = i.T]]
                       ELSE NoCall]

SizeNext == \E c \in Calls : CallInit(c)

SizeSpec == SizeInit /\ [][SizeNext]_vars

\* ------------------------------------------- the producer loop at the limit
\* The loop of multiuploader.upload taken up where num parts of an
\* unknown-length stream have been sent and the workers have finished them,
\* num being within MaxParts of the part limit.  body.size is the number of
\* bytes the stream still holds; readerPos, readers, enq and parts count from
\* this point on.
PartLimit(c) == Min2(c.MaxUploadParts, MaxUploadParts)

LimitInit ==
    /\ \E m \in {MaxUploadParts - 1, MaxUploadParts, MaxUploadParts + 1} :
         cfg = [PartSize |-> MinUploadPartSize, Concurrency |-> 1,
                MaxUploadParts |-> m, LeavePartsOnError |-> FALSE]
    /\ body \in {b \in Bodies : b.kind = "seq"}
    /\ existingUploadID = NoUploadID
    /\ ctxDone = FALSE
    /\ pc = "loop"
    /\ readerPos = 0
    /\ totalSize = -1
    /\ pool = newByteSlicePool(cfg.PartSize, poolCap(cfg))
    /\ cur = NoCur
    /\ num \in (PartLimit(cfg) - MaxParts)..PartLimit(cfg)
    /\ ch = << >>
    /\ chClosed = FALSE
    /\ wpc = [w \in Workers |-> IF w <= cfg.Concurrency THEN "recv" ELSE "idle"]
    /\ wdata = [w \in Workers |-> NoChunk]
    /\ err = NoErr
    /\ uploadID = CreatedID
    /\ parts = << >>
    /\ eTagByPartNumber = << >>
    /\ pager = NewPaginator
    /\ repeat = FALSE
    /\ readers = << >>
    /\ cleanups = << >>
    /\ enq = << >>
    /\ calls = [NoCalls EXCEPT !.create = 1]
    /\ ret = Running
    /\ CallerIdle

LimitNext ==
    \/ LoopCheck
    \/ NextChunk
    \/ Abandon
    \/ Enqueue
    \/ CloseChannel
    \/ Finish
    \/ \E w \in Workers : Receive(w)
    \/ \E w \in Workers : Decide(w)
    \/ \E w \in Workers : send(w)
    \/ \E w \in Workers : WorkerCleanup(w)

LimitSpec == LimitInit /\ [][LimitNext]_vars

\* ------------------------------------------------ the producer loop at length
\* A fresh upload of a body LoopParts parts long, with the default
\* configuration but for Concurrency, never cancelled: the producer has
\* chunks left to send when a worker records an error.
LoopParts == 3

LoopInit ==
    /\ \E n \in {1, MaxConcurrency} :
         cfg = [PartSize |-> 0, Concurrency |-> n, MaxUploadParts |-> 0,
                LeavePartsOnError |-> FALSE]
    /\ \E k \in {"ra", "seq"}, e \in BOOLEAN :
         body = [kind |-> k, size |-> LoopParts * MinUploadPartSize,
                 readMax |-> MinUploadPartSize, eagerEOF |-> e /\ k = "seq"]
    /\ existingUploadID = NoUploadID
    /\ ctxDone = FALSE
    /\ pc = "init"
    /\ readerPos = 0
    /\ totalSize = 0
    /\ pool = NoPool
    /\ cur = NoCur
    /\ num = 0
    /\ ch = << >>
    /\ chClosed = FALSE
    /\ wpc = [w \in Workers |-> "idle"]
    /\ wdata = [w \in Workers |-> NoChunk]
    /\ err = NoErr
    /\ uploadID = ""
    /\ parts = << >>
    /\ eTagByPartNumber = << >>
    /\ pager = NewPaginator
    /\ repeat = FALSE
    /\ readers = << >>
    /\ cleanups = << >>
    /\ enq = << >>
    /\ calls = NoCalls
    /\ ret = Running
    /\ CallerIdle

LoopNext ==
    \/ UploadInit
    \/ FirstRead
    \/ FirstReadFailed
    \/ CreateSession
    \/ StartWorkers
    \/ SendFirst
    \/ LoopCheck
    \/ NextChunk
    \/ Abandon
    \/ Enqueue
    \/ CloseChannel
    \/ Finish
    \/ \E w \in Workers : Receive(w)
    \/ \E w \in Workers : Decide(w)
    \/ \E w \in Workers : send(w)
    \/ \E w \in Workers : WorkerCleanup(w)

LoopSpec == LoopInit /\ [][LoopNext]_vars

\* ==================================================================== claims
Done == pc = "done"
\* mu.upload was entered: the first read returned data without io.EOF.
MultipartEntered == calls.create > 0 \/ uploadID # ""
\* A session exists: CreateMultipartUpload returned an ID, or one was adopted.
SessionOpen == uploadID # ""
PartNumbers(s) == [i \in 1..Len(s) |-> s[i].PartNumber]
RECURSIVE SumSeq(_)
SumSeq(s) == IF s = << >> THEN 0 ELSE Head(s) + SumSeq(Tail(s))
\* Pool buffers handed out by nextReader and not yet returned by cleanup.
Outstanding == Cardinality({i \in 1..Len(readers) : readers[i].pooled /\ cleanups[i] = 0})
\* UploadPart requests that returned an error.
FailedUploads == {c.num : c \in calls.uploadPart} \ {parts[i].PartNumber : i \in 1..Len(parts)}

\* C1: whenever a multipart upload returns success, exactly one
\* CompleteMultipartUpload was made and its manifest lists the part numbers
\* 1..N once each in increasing order, N being the number of chunks sent on
\* the channel.
C1_ManifestIsOneToN ==
    (Done /\ ret.status = "ok" /\ MultipartEntered) =>
        /\ Len(calls.complete) = 1
        /\ PartNumbers(calls.complete[1].parts) = [i \in 1..Len(enq) |-> i]
        /\ Len(enq) >= 1

C1_Witness ==
    /\ Done /\ ret.status = "ok"
    /\ Len(calls.complete) = 1
    /\ Len(calls.complete[1].parts) >= 2
    /\ cfg.Concurrency = 2

\* C2: after a successful multipart upload of a sequential body, the chunks
\* sent on the channel, taken in part-number order, are consecutive byte
\* ranges that start at 0 and end at the body's size.
C2_PartsConcatenateToBody ==
    (Done /\ ret.status = "ok" /\ MultipartEntered /\ body.kind = "seq") =>
        /\ \A i \in 1..Len(enq) :
             /\ enq[i].num = i
             /\ readers[enq[i].id].start = SumSeq([j \in 1..(i - 1) |-> readers[enq[j].id].len])
        /\ SumSeq([j \in 1..Len(enq) |-> readers[enq[j].id].len]) = body.size

C2_Witness ==
    /\ Done /\ ret.status = "ok" /\ body.kind = "seq"
    /\ body.readMax < cfg.PartSize
    /\ Len(enq) = 2
    /\ readers[enq[2].id].len = 1

\* C3: with LeavePartsOnError=false, when Upload/ResumeUpload has returned,
\* a session that was created or adopted has either been completed
\* successfully or had AbortMultipartUpload invoked, and not both.
C3_CompletedXorAborted ==
    (Done /\ ~cfg.LeavePartsOnError /\ SessionOpen) =>
        (calls.completeOK /\ calls.abort = 0) \/ (~calls.completeOK /\ calls.abort >= 1)

\* C4: every error returned once a session was created or adopted is a
\* multiUploadError whose UploadID() is the session ID.
C4_ErrorsCarryUploadID ==
    (Done /\ ret.status = "err" /\ SessionOpen) =>
        ret.wrapped /\ ret.uploadID = uploadID

C6_EveryCleanupOnce ==
    Done => \A i \in 1..Len(readers) : cleanups[i] = 1

\* C7 (as claimed): when a multipart upload that sent k chunks on the channel
\* returns, exactly k cleanups have run.
C7_ExactlyKCleanups ==
    (Done /\ MultipartEntered) => SumSeq(cleanups) = Len(enq)

\* C7 (amended): when a multipart upload returns, the cleanup of each of the k
\* chunks it sent on the channel has run exactly once, and in all k or k+1
\* cleanups have run: one more when the producer dropped a reader without
\* sending it.
C7_EnqueuedCleanedOnce ==
    (Done /\ MultipartEntered) =>
        /\ \A i \in 1..Len(enq) : cleanups[enq[i].id] = 1
        /\ SumSeq(cleanups) \in {Len(enq), Len(enq) + 1}

\* A failed upload whose workers skipped a chunk, and whose producer dropped one.
C7_Witness ==
    /\ Done /\ ret.wrapped
    /\ Len(enq) >= 2
    /\ SumSeq(cleanups) = Len(enq) + 1
    /\ Cardinality(calls.uploadPart) < Len(enq)

C9_LeavePartsNeverAborts ==
    cfg.LeavePartsOnError =>
        /\ calls.abort = 0
        /\ (Done /\ ret.status = "err" /\ Len(enq) >= 1) =>
               (ret.wrapped /\ ret.uploadID = uploadID /\ uploadID # "")

C9_Witness ==
    /\ Done /\ cfg.LeavePartsOnError
    /\ ret.wrapped /\ calls.abort = 0
    /\ ret.err.kind = "UploadPart failed"

\* The first read returned the whole body, which is exactly one part long.
WholeBodyInOnePart ==
    /\ Len(readers) >= 1
    /\ body.size = cfg.PartSize
    /\ readers[1].len = body.size

\* C10 (as claimed): a body exactly PartSize long is uploaded by one
\* PutObject and no multipart session, also when it is a sequential stream
\* that reports io.EOF only on the Read after the last bytes.
C10_ExactPartIsSinglePart ==
    (Done /\ WholeBodyInOnePart) =>
        (calls.put = 1 /\ ~MultipartEntered)

\* C10 (amended): a body exactly PartSize long is uploaded by one PutObject
\* when it is random-access or its last Read returns io.EOF with the last
\* bytes; a sequential body that reports io.EOF only on the following Read
\* takes the multipart path, with PartSize bytes in part 1.
C10_ExactPartByEOF ==
    (Done /\ WholeBodyInOnePart) =>
        IF body.kind = "ra" \/ body.eagerEOF
        THEN calls.put = 1 /\ ~MultipartEntered
        ELSE /\ calls.put = 0 /\ MultipartEntered
             /\ Len(enq) <= 1
             /\ \A i \in 1..Len(enq) : readers[enq[i].id].len = cfg.PartSize

C10_Witness ==
    /\ Done /\ WholeBodyInOnePart
    /\ body.kind = "seq" /\ ~body.eagerEOF
    /\ ret.status = "ok" /\ ret.uploadID = CreatedID
    /\ Len(enq) = 1

\* C11: for a zero-byte body, sequential or random-access, no multipart call
\* (Create, ListParts, UploadPart, Complete, Abort) is ever made; unless the
\* part size is rejected or the first read fails, the upload makes exactly one
\* PutObject, whose body is the empty reader, and a successful result carries
\* an empty UploadID.
C11_ZeroByteIsOnePut ==
    body.size = 0 =>
        /\ calls.create = 0 /\ calls.list = 0 /\ calls.uploadPart = {}
        /\ calls.complete = << >> /\ calls.abort = 0
        /\ calls.put <= 1
        /\ (Done /\ ret.err.kind \notin {"part size must be at least MinUploadPartSize bytes",
                                         "read upload data failed"}) =>
               /\ calls.put = 1
               /\ Len(readers) = 1 /\ readers[1].len = 0
               /\ ret.status = "ok" => ret.uploadID = ""

C11_Witness ==
    /\ Done /\ body.size = 0 /\ body.kind = "seq"
    /\ calls.put = 1 /\ ret.status = "ok" /\ ret.uploadID = ""

\* The local chunk sent as part number n has the checksum ListParts reported.
Matches(c) ==
    /\ c.num \in DOMAIN eTagByPartNumber
    /\ MD5Hex(readers[c.id].start, readers[c.id].len) = eTagByPartNumber[c.num]
\* The number of parts the body is cut into.
LocalParts == (body.size + cfg.PartSize - 1) \div cfg.PartSize

\* C12: UploadPart is never requested for a part number ListParts reported;
\* when every chunk sent on the channel is reported with the checksum of the
\* local bytes, no UploadPart is requested at all, no checksum error is
\* recorded, and a successful return has made one CompleteMultipartUpload
\* whose manifest holds, for each part, the ETag kept in eTagByPartNumber.
C12_ListedPartsNotResent ==
    /\ \A c \in calls.uploadPart : c.num \notin DOMAIN eTagByPartNumber
    /\ (Done /\ existingUploadID # NoUploadID /\ Len(enq) >= 1
             /\ \A i \in 1..Len(enq) : Matches(enq[i])) =>
           /\ calls.uploadPart = {}
           /\ err.kind # "checksum did not match for chunk"
           /\ ret.status = "ok" =>
                  /\ Len(calls.complete) = 1
                  /\ calls.complete[1].id = ResumeID
                  /\ calls.complete[1].parts =
                         [i \in 1..Len(enq) |->
                             [PartNumber |-> i, ETag |-> eTagByPartNumber[i]]]

\* A resumed upload of a two-part body, both parts listed: it completes
\* without an UploadPart.
C12_Witness ==
    /\ Done /\ ret.status = "ok" /\ ret.uploadID = ResumeID
    /\ Len(enq) = 2 /\ LocalParts = 2
    /\ \A i \in 1..Len(enq) : Matches(enq[i])
    /\ calls.uploadPart = {}
    /\ Len(calls.complete) = 1

\* The chunk was sent with a part number ListParts reported, with another checksum.
Mismatches(c) ==
    /\ c.num \in DOMAIN eTagByPartNumber
    /\ MD5Hex(readers[c.id].start, readers[c.id].len) # eTagByPartNumber[c.num]

\* C13: when a resumed upload has returned and some chunk it sent on the
\* channel was listed with a checksum other than that of the local bytes,
\* that part number is not in multiuploader.parts, multiuploader.err is set,
\* an error was returned, CompleteMultipartUpload was not called, and unless
\* LeavePartsOnError is set AbortMultipartUpload was called once.
C13_MismatchIsFatal ==
    \A i \in 1..Len(enq) :
        (Done /\ Mismatches(enq[i])) =>
            /\ \A j \in 1..Len(parts) : parts[j].PartNumber # enq[i].num
            /\ err # NoErr
            /\ ret.status = "err" /\ ret.wrapped
            /\ calls.complete = << >>
            /\ calls.abort = IF cfg.LeavePartsOnError THEN 0 ELSE 1
            /\ (calls.abort = 1 => calls.abortID = ResumeID)

\* Part 2 of a resumed upload fails its checksum and the session is aborted.
C13_Witness ==
    /\ Done /\ Len(enq) = 2
    /\ Mismatches(enq[2]) /\ Matches(enq[1])
    /\ err = Err("checksum did not match for chunk", 2)
    /\ calls.abort = 1 /\ ~cfg.LeavePartsOnError

\* The call has been through uploader.init.
Initialized(c) == call[c].pc \in {"run", "done"}
CeilDiv(a, b) == (a + b - 1) \div b

IsLimitErr(e) ==
    e.kind \in {"exceeded total allowed configured MaxUploadParts",
                "exceeded total allowed S3 limit MaxUploadParts"}
\* The bytes of the chunks sent on the channel.
EnqueuedBytes == SumSeq([i \in 1..Len(enq) |-> readers[enq[i].id].len])

EnqLen(i) == readers[enq[i].id].len

\* C16: at every moment of a multipart upload, each chunk sent on the channel
\* but the latest has exactly cfg.PartSize bytes (the effective part size) and
\* the latest has between 1 and cfg.PartSize bytes; a successful upload of a
\* body of cfg.PartSize + 1 bytes has sent exactly two chunks, of cfg.PartSize
\* bytes and of 1 byte.
C16_PartSizes ==
    /\ \A i \in 1..Len(enq) :
         /\ EnqLen(i) >= 1
         /\ EnqLen(i) <= cfg.PartSize
         /\ i < Len(enq) => EnqLen(i) = cfg.PartSize
    /\ (Done /\ ret.status = "ok" /\ MultipartEntered /\ body.size = cfg.PartSize + 1) =>
           /\ Len(enq) = 2
           /\ EnqLen(1) = cfg.PartSize
           /\ EnqLen(2) = 1

\* 5 MiB + 1 byte from a random-access body: parts of 5 MiB and 1 byte.
C16_Witness ==
    /\ Done /\ ret.status = "ok" /\ body.kind = "ra"
    /\ cfg.PartSize = MinUploadPartSize
    /\ body.size = MinUploadPartSize + 1
    /\ Len(enq) = 2 /\ EnqLen(1) = MinUploadPartSize /\ EnqLen(2) = 1
    /\ Len(calls.complete) = 1 /\ Len(calls.complete[1].parts) = 2

\* C17: when the part size left by init is below MinUploadPartSize, Upload
\* and ResumeUpload have returned the part-size error as soon as init is
\* over: nextReader was never called, no byte of the body was consumed and
\* no store-client call (PutObject, CreateMultipartUpload, ListParts,
\* UploadPart, CompleteMultipartUpload, AbortMultipartUpload) was made.
C17_SmallPartSizeRejected ==
    (pc # "init" /\ cfg.PartSize < MinUploadPartSize) =>
        /\ Done
        /\ ret = ReturnErr(Err("part size must be at least MinUploadPartSize bytes", 0))
        /\ readers = << >> /\ readerPos = 0
        /\ calls = NoCalls
        /\ uploadID = ""

\* ResumeUpload of a non-empty random-access body with a part size one byte
\* short of the minimum.
C17_Witness ==
    /\ Done /\ existingUploadID = ResumeID
    /\ body.kind = "ra" /\ body.size > MinUploadPartSize
    /\ cfg.PartSize = MinUploadPartSize - 1
    /\ ret.status = "err"
    /\ calls = NoCalls

\* The workers have been started and upload() has not returned.
InProduction == pc \in {"start", "send1", "loop", "read", "enqueue", "abandon", "close", "wait"}
\* What the upload has come to when it returns through the abort path.
AbortedWithError ==
    /\ Done
    /\ ret.status = "err" /\ ret.wrapped /\ ret.uploadID = uploadID
    /\ err # NoErr /\ ret.err = err
    /\ ~calls.completeOK
    /\ calls.abort = IF cfg.LeavePartsOnError THEN 0 ELSE 1
    /\ ch = << >>
    /\ \A i \in 1..Len(enq) : cleanups[enq[i].id] = 1

ReusesUploaderPool(c) ==
    /\ theUploader.partPool # 0
    /\ pools[theUploader.partPool].sliceSize = call[c].cfg.PartSize
\* The calls that run on the Uploader's pool.
Sharing == {c \in Calls : call[c].pc = "run" /\ call[c].wrapped}

\* C19 (as claimed): the pool of a call is one init allocated for it, of
\* capacity Concurrency+1, closed when the call has returned, and no other
\* call uses it.
C19_PoolIsPrivate ==
    \A c \in Calls :
        Initialized(c) =>
            LET id == call[c].cfg.partPool
            IN  /\ id # theUploader.partPool
                /\ \A d \in Calls \ {c} : Initialized(d) => call[d].cfg.partPool # id
                /\ pools[id].cap = poolCap(call[c].cfg)
                /\ pools[id].closed <=> call[c].pc = "done"

\* C19 (amended): init allocates a pool for the call, of capacity
\* Concurrency+1, used by no other call and closed at the return, only when
\* the Uploader has no pool or one of another slice size than the call's part
\* size; otherwise the call runs on the Uploader's pool, which is never
\* closed, whose capacity is the sum of Concurrency+1 over the calls running
\* on it, and from which all of them take their buffers.
C19_PoolPrivateUnlessReused ==
    /\ \A c \in Calls :
         Initialized(c) =>
            LET id == call[c].cfg.partPool
            IN  IF ReusesUploaderPool(c)
                THEN /\ call[c].wrapped
                     /\ id = theUploader.partPool
                ELSE /\ ~call[c].wrapped
                     /\ id # theUploader.partPool
                     /\ \A d \in Calls \ {c} : Initialized(d) => call[d].cfg.partPool # id
                     /\ pools[id].sliceSize = call[c].cfg.PartSize
                     /\ pools[id].cap = poolCap(call[c].cfg)
                     /\ pools[id].out = call[c].held
                     /\ pools[id].closed <=> call[c].pc = "done"
    /\ theUploader.partPool # 0 =>
         LET p == pools[theUploader.partPool]
         IN  /\ ~p.closed
             /\ p.cap = SumSeq([c \in Calls |-> IF c \in Sharing THEN poolCap(call[c].cfg) ELSE 0])
             /\ p.out = SumSeq([c \in Calls |-> IF c \in Sharing THEN call[c].held ELSE 0])

\* Two concurrent calls from a NewUploader with Concurrency 1 run on its
\* pool, grown to capacity 4; one of them holds three of its buffers.
C19_Witness ==
    /\ Sharing = Calls
    /\ call[1].cfg.partPool = call[2].cfg.partPool
    /\ call[1].cfg.Concurrency = 1 /\ call[2].cfg.Concurrency = 1
    /\ pools[theUploader.partPool].cap = 4
    /\ call[1].held = 3 /\ call[2].held = 1

\* What the caller sees of its Uploader.
UploaderView ==
    [ PartSize |-> theUploader.PartSize,
      Concurrency |-> theUploader.Concurrency,
      MaxUploadParts |-> theUploader.MaxUploadParts,
      LeavePartsOnError |-> theUploader.LeavePartsOnError,
      ClientOptions |-> SliceElems(heap, theUploader.ClientOptions) ]

\* C20: no step of a call (the copy of the receiver and of its ClientOptions,
\* the options of the call, init with its known-size adjustment, the return)
\* changes the Uploader's PartSize, Concurrency, MaxUploadParts,
\* LeavePartsOnError or the elements of its ClientOptions.
C20_UploaderUnchanged == [][UploaderView' = UploaderView]_vars

\* Both calls have returned: one had its part size raised by initSize, the
\* other replaced the first of its client options; the Uploader still has the
\* default part size and its one request option.
C20_Witness ==
    /\ call[1].pc = "done" /\ call[2].pc = "done"
    /\ theUploader.PartSize = MinUploadPartSize
    /\ call[1].cfgIn.PartSize = MinUploadPartSize
    /\ call[1].cfg.PartSize = 2 * MinUploadPartSize + 1
    /\ SliceElems(heap, call[2].cfg.ClientOptions) = << "replaced option", "request option" >>
    /\ SliceElems(heap, theUploader.ClientOptions) = << "request option" >>

\* C21: on the single-part path a failed PutObject is returned as the store
\* client's error itself, not wrapped in a multiUploadError and with no upload
\* ID; the cleanup of the one reader has run once, and no multipart call
\* (Create, ListParts, UploadPart, Complete, Abort) was made.
C21_PutErrorUnchanged ==
    (Done /\ calls.put >= 1) =>
        /\ calls.put = 1
        /\ Len(readers) = 1 /\ cleanups = << 1 >>
        /\ pool.out = 0
        /\ calls.create = 0 /\ calls.list = 0 /\ calls.uploadPart = {}
        /\ calls.complete = << >> /\ calls.abort = 0
        /\ ret.status = "err" => ret = ReturnErr(Err("PutObject failed", 0))

\* PutObject fails for a ten-byte sequential body read into a pool buffer.
C21_Witness ==
    /\ Done /\ calls.put = 1 /\ ret.status = "err"
    /\ body.kind = "seq" /\ body.size = 10
    /\ readers[1].pooled /\ cleanups[1] = 1
    /\ ~ctxDone

\* A worker is about to make, or is making, its UploadPart request.
UploadInFlight == \E w \in Workers : wpc[w] = "send"
WorkersGone == \A w \in Workers : wpc[w] \in {"idle", "exit"}

\* C22: CompleteMultipartUpload and AbortMultipartUpload are called only
\* when the channel is closed and empty and every worker has left readChunk;
\* once either has been called no worker is at an UploadPart and none is
\* made; and every UploadPart of a fresh upload is made after the one
\* CreateMultipartUpload has returned the session ID.
C22_CompleteAfterWorkers ==
    [][ /\ (calls'.complete # calls.complete \/ calls'.abort # calls.abort) =>
               (chClosed /\ ch = << >> /\ WorkersGone)
        /\ (calls.complete # << >> \/ calls.abort > 0) =>
               (~UploadInFlight /\ ~UploadInFlight' /\ calls'.uploadPart = calls.uploadPart)
        /\ (UploadInFlight' \/ calls'.uploadPart # calls.uploadPart) =>
               /\ uploadID # "" /\ uploadID' = uploadID
               /\ existingUploadID = NoUploadID =>
                      (calls.create = 1 /\ uploadID = CreatedID) ]_vars

\* Both parts of a fresh upload went out through two workers, an UploadPart
\* failed, and the abort was sent after both workers had left.
C22_Witness ==
    /\ Done /\ existingUploadID = NoUploadID /\ cfg.Concurrency = 2
    /\ Cardinality(calls.uploadPart) = 2
    /\ calls.abort = 1 /\ calls.complete = << >>
    /\ chClosed /\ WorkersGone

\* C23 (as claimed): no UploadPart is made while multiuploader.err is set.
C23_NoUploadAfterError ==
    [][calls'.uploadPart # calls.uploadPart => err = NoErr]_vars

\* C23 (amended): a worker that finds multiuploader.err set when it looks at
\* its chunk makes no UploadPart for it and goes on to the chunk's cleanup,
\* which runs once; a worker that looked while no error was recorded still
\* makes its UploadPart if an error is recorded in between; multiuploader.err
\* once set is never nil again.
C23_SkipsWhenErrorSeen ==
    [][ /\ \A w \in Workers :
             /\ (wpc[w] = "got" /\ wpc'[w] # "got" /\ err # NoErr) =>
                    /\ wpc'[w] = "cleanup"
                    /\ calls' = calls
             /\ (wpc[w] = "got" /\ wpc'[w] = "send") =>
                    (err = NoErr /\ wdata[w].num \notin DOMAIN eTagByPartNumber)
             /\ (wpc[w] = "send" /\ wpc'[w] # "send") =>
                    /\ wpc'[w] = "cleanup"
                    /\ calls'.uploadPart = calls.uploadPart \cup {[num |-> wdata[w].num, id |-> uploadID]}
             /\ (wpc[w] = "cleanup" /\ wpc'[w] # "cleanup") =>
                    /\ cleanups[wdata[w].id] = 0
                    /\ cleanups'[wdata[w].id] = 1
        /\ calls'.uploadPart # calls.uploadPart =>
               \E w \in Workers : wpc[w] = "send" /\ wpc'[w] = "cleanup"
        /\ err # NoErr => err' # NoErr ]_vars

\* Part 1 failed while the other worker, having found no error, was on its
\* way to the UploadPart of part 2, which it now makes.
C23_Witness ==
    /\ err = Err("UploadPart failed", 1)
    /\ \E w \in Workers : wpc[w] = "send" /\ wdata[w].num = 2
    /\ ~ctxDone

\* C24: the producer looks at multiuploader.err at the top of every turn of
\* its loop and, finding it set, leaves the loop for close(ch); every chunk it
\* sends brings it back to that test; so from any moment at which an error is
\* recorded with k chunks sent, at most k+1 chunks are ever sent, and once
\* the channel is closed none is.
C24_AtMostOneMoreChunk ==
    /\ [][ /\ (pc = "loop" /\ pc' # "loop" /\ err # NoErr) => pc' = "close"
           /\ enq' # enq => (pc \in {"send1", "enqueue"} /\ pc' = "loop")
           /\ (pc = "close" /\ pc' # "close") => chClosed'
           /\ chClosed => enq' = enq ]_vars
    /\ \A k \in 0..LoopParts :
          []((err # NoErr /\ Len(enq) = k) => [](Len(enq) <= k + 1))

\* The UploadPart of part 1 has failed while the producer, past its test,
\* holds the second chunk of LoopParts: it sends it, and then finds the error.
C24_Witness ==
    /\ err = Err("UploadPart failed", 1)
    /\ pc = "enqueue" /\ Len(enq) = 1
    /\ Len(ch) < cfg.Concurrency
    /\ body.size = LoopParts * MinUploadPartSize

CompleteErr == Err("CompleteMultipartUpload failed", 0)

\* C25: CompleteMultipartUpload is called only with every sent chunk in the
\* manifest and no error recorded; when it fails, that error is recorded and
\* returned in a multiUploadError with the session ID, and
\* AbortMultipartUpload is called once, or not at all with LeavePartsOnError.
\* Whatever the abort returns, its error is neither recorded nor returned:
\* the upload that aborted returns the error multiuploader.err holds.
C25_CompleteFailureAborts ==
    /\ calls.complete # << >> =>
          /\ Len(calls.complete) = 1
          /\ Len(calls.complete[1].parts) = Len(enq)
          /\ Done
          /\ calls.completeOK => (ret.status = "ok" /\ err = NoErr /\ calls.abort = 0)
          /\ ~calls.completeOK =>
                 /\ err = CompleteErr
                 /\ ret = ReturnMultiErr(CompleteErr, uploadID)
                 /\ calls.abort = IF cfg.LeavePartsOnError THEN 0 ELSE 1
    /\ calls.abort > 0 =>
          /\ calls.abort = 1 /\ calls.abortID = uploadID
          /\ Done /\ ret.status = "err" /\ ret.wrapped
          /\ ret.err = err
    /\ err.kind # "AbortMultipartUpload failed"
    /\ ret.err.kind # "AbortMultipartUpload failed"

\* Both parts were uploaded, CompleteMultipartUpload failed, and so did the
\* AbortMultipartUpload that followed: the caller gets the former's error.
C25_Witness ==
    /\ Done /\ ~ctxDone
    /\ Len(parts) = 2 /\ Cardinality(calls.uploadPart) = 2
    /\ Len(calls.complete) = 1 /\ ~calls.completeOK
    /\ calls.abort = 1 /\ ~calls.abortOK
    /\ ret.err = CompleteErr

\* C26: at every moment of every run the i-th chunk sent on the channel
\* carries part number i and is the i-th reader nextReader returned, and num
\* is the number of chunks sent; a reader the producer drops (empty, read
\* error, part limit) is the last one returned, is not sent and leaves num
\* as it was.
C26_PartNumbersInSequence ==
    /\ \A i \in 1..Len(enq) : enq[i].num = i /\ enq[i].id = i
    /\ num = Len(enq)
    /\ Len(readers) \in {Len(enq), Len(enq) + 1}
    /\ pc = "abandon" => (cur.id = Len(readers) /\ Len(readers) = Len(enq) + 1)

\* Two parts were sent, the read for a third failed and its reader was
\* dropped: the parts are numbered 1 and 2 and num is 2.
C26_Witness ==
    /\ Done /\ ret.status = "err"
    /\ Len(enq) = 2 /\ enq[2].num = 2 /\ num = 2
    /\ Len(readers) = 3
    /\ cur.err.kind = "read multipart upload data failed"

\* C27: once a page has listed a part number that is already in
\* eTagByPartNumber, no further page is fetched, whether or not the paginator
\* has more pages: the loop ends and the workers are started; a page is
\* fetched only while the paginator has more and no part was repeated; and
\* an entry of eTagByPartNumber, once made, is never changed or removed.
C27_StopsAtRepeatedPart ==
    [][ /\ (pc = "list" /\ repeat) =>
               /\ pc' \in {"list", "start"}
               /\ pc' = "list" => pager' = pager
               /\ calls' = calls /\ ret' = ret
        /\ pager'.fetched > pager.fetched => (pager.hasMore /\ ~repeat)
        /\ \A n \in DOMAIN eTagByPartNumber :
               /\ n \in DOMAIN eTagByPartNumber'
               /\ eTagByPartNumber'[n] = eTagByPartNumber[n] ]_vars

\* Part 1 was listed with an ETag of other bytes, then listed again with the
\* matching one by a paginator that still has more pages: the loop is over
\* and the first ETag is the one kept.
C27_Witness ==
    /\ pc = "list" /\ repeat /\ pager.hasMore
    /\ pager.fetched < MaxPages
    /\ 1 \in DOMAIN eTagByPartNumber
    /\ eTagByPartNumber[1] = Unquote(RemoteETag(1, "differ", cfg.PartSize, body.size)).val

\* Which ID the upload has, which calls opened the session, and the ID each
\* call on the session carried.
SessionIDConsistent ==
    /\ existingUploadID # NoUploadID =>
          (calls.create = 0 /\ uploadID \in {"", existingUploadID})
    /\ existingUploadID = NoUploadID =>
          /\ calls.list = 0 /\ calls.create <= 1
          /\ uploadID \in {"", CreatedID}
          /\ uploadID # "" => calls.create = 1
    /\ (\E w \in Workers : wpc[w] # "idle") => uploadID # ""
    /\ \A c \in calls.uploadPart : c.id = uploadID
    /\ \A i \in 1..Len(calls.complete) : calls.complete[i].id = uploadID
    /\ calls.abort > 0 => calls.abortID = uploadID

\* C28: multiuploader.uploadID is set before the workers are started and,
\* once set, never changes.  A resumed upload has the caller's ID and makes no
\* CreateMultipartUpload; a fresh upload makes at most one
\* CreateMultipartUpload, exactly one when it has a session, has the ID that
\* call returned, and makes no ListParts.  Every UploadPart,
\* CompleteMultipartUpload and AbortMultipartUpload carries that ID.
C28_SessionIDFixed ==
    /\ [][uploadID # "" => uploadID' = uploadID]_vars
    /\ []SessionIDConsistent

\* A resumed upload listed part 1, uploaded part 2 and completed, all under
\* the caller's ID.
C28_Witness ==
    /\ Done /\ existingUploadID = ResumeID /\ ret = ReturnOK(ResumeID)
    /\ calls.list = 1 /\ calls.create = 0
    /\ calls.uploadPart = {[num |-> 2, id |-> ResumeID]}
    /\ Len(calls.complete) = 1 /\ calls.complete[1].id = ResumeID

WorkersStarted == \E w \in Workers : wpc[w] # "idle"

\* C29: eTagByPartNumber is written only by the ListParts loop, while no
\* worker has been started; from the start of the first worker on it is
\* never written, so every read of it by a worker sees the same map.
C29_ETagsReadOnlyForWorkers ==
    [][ /\ eTagByPartNumber' # eTagByPartNumber => (pc = "list" /\ ~WorkersStarted)
        /\ (WorkersStarted \/ WorkersStarted') => eTagByPartNumber' = eTagByPartNumber
        /\ (~WorkersStarted /\ WorkersStarted') => (pc = "start" /\ ~(pc' = "list")) ]_vars

\* A worker holds part 2 and looks it up in the map of two listed parts.
C29_Witness ==
    /\ DOMAIN eTagByPartNumber = {1, 2}
    /\ \E w \in Workers : wpc[w] = "got" /\ wdata[w].num = 2
    /\ \E w \in Workers : wpc[w] = "cleanup" /\ wdata[w].num = 1

\* The first nextReader returned the body's read error.
FirstReadErr == cur.id = 1 /\ cur.err = ReadErr
\* A nextReader of the producer loop returned the body's read error.
LoopReadErr == cur.err = Wrap("read multipart upload data failed", ReadErr)
\* What a failed first read comes to, and where a failed later read leaves
\* its reader.
ReadErrHandled ==
    /\ (Done /\ FirstReadErr) =>
          /\ ret = ReturnErr(Wrap("read upload data failed", ReadErr))
          /\ calls = NoCalls /\ uploadID = ""
          /\ cleanups = << 1 >>
    /\ LoopReadErr =>
          /\ cur.id = Len(readers)
          /\ \A i \in 1..Len(enq) : enq[i].id # cur.id
          /\ cleanups[cur.id] = IF pc = "abandon" THEN 0 ELSE 1
          /\ pc # "abandon" => err # NoErr
          /\ pc \in {"abandon", "close", "wait", "done"}

ReturnedAfterWorkers ==
    /\ Done
    /\ chClosed /\ ch = << >> /\ WorkersGone
    /\ ret.status \in {"ok", "err"}
    /\ \/ Len(calls.complete) = 1
       \/ calls.abort = 1
       \/ cfg.LeavePartsOnError /\ err # NoErr

\* C31: with every store-client call and every read returning, a goroutine
\* that can run being run, and the pool giving a buffer whenever fewer than
\* Concurrency+1 are out, a multipart upload whose workers are being started
\* always ends: the producer waiting in nextReader for a buffer or at a send
\* on the full channel gets past it, the channel is closed, every worker
\* leaves, and the coordinator runs complete() (CompleteMultipartUpload or
\* the abort path) and returns.
C31_MultipartTerminates ==
    /\ InProduction ~> ReturnedAfterWorkers
    /\ (pc \in {"read", "send1", "enqueue"}) ~> (pc \in {"loop", "abandon"})

\* The producer is at the send of part 2 with the channel full: the one
\* worker has not yet taken part 1.
C31_Witness ==
    /\ pc = "enqueue" /\ ~ctxDone
    /\ Len(ch) = cfg.Concurrency
    /\ \A w \in Workers : wpc[w] \in {"idle", "recv"}
    /\ err = NoErr

\* The part numbers ListParts reported beyond the chunks sent.
ListedBeyondLocal == {n \in DOMAIN eTagByPartNumber : n > Len(enq)}

\* C32: a part number ListParts reported that is above the number of chunks
\* cut from the local body is never looked at: it is never in
\* multiuploader.parts nor in a manifest, no UploadPart is made for it, and
\* a checksum error always names a chunk that was sent and differs.  A
\* resumed upload that returns success has made one CompleteMultipartUpload
\* whose manifest is the part numbers 1..N of the N chunks sent, whatever
\* was listed beyond N.
C32_ExtraListedPartsIgnored ==
    /\ \A i \in 1..Len(parts) : parts[i].PartNumber \in 1..Len(enq)
    /\ \A c \in calls.uploadPart : c.num \in 1..Len(enq)
    /\ \A i \in 1..Len(calls.complete) :
          PartNumbers(calls.complete[i].parts) = [j \in 1..Len(enq) |-> j]
    /\ err.kind = "checksum did not match for chunk" =>
          (err.part \in 1..Len(enq) /\ Mismatches(enq[err.part]))
    /\ (Done /\ existingUploadID # NoUploadID /\ ret.status = "ok" /\ MultipartEntered) =>
          /\ Len(calls.complete) = 1 /\ calls.completeOK
          /\ Len(enq) >= 1
          /\ ret.uploadID = existingUploadID

\* ListParts reported parts 1 and 2, the second with an ETag of other bytes;
\* the local body gave one chunk, which matched: the upload completed with a
\* manifest of part 1 alone.
C32_Witness ==
    /\ Done /\ ret = ReturnOK(ResumeID)
    /\ Len(enq) = 1 /\ Matches(enq[1])
    /\ ListedBeyondLocal = {2}
    /\ eTagByPartNumber[2] = Unquote(RemoteETag(2, "differ", cfg.PartSize, body.size)).val
    /\ PartNumbers(calls.complete[1].parts) = << 1 >>
    /\ calls.uploadPart = {}

====
